---- MODULE Spec2Model ----
(***************************************************************************)
(* tinyrender: the object registry (internalObjects), the interaction      *)
(* state of internalScene and the init/update/render/swap/terminate        *)
(* lifecycle, as implemented in tinyrender.cpp.                            *)
(*                                                                         *)
(* Object ids are 0-based as in the C++ code; the record with id i is      *)
(* internalObjects[i + 1].  assert() is modelled as compiled in: a failed  *)
(* assertion ends the process (status = "aborted").  OpenGL calls issued   *)
(* without a current context and an out-of-range vector read are undefined *)
(* behaviour: the process either dies (status = "crashed") or the call has *)
(* no effect.                                                              *)
(*                                                                         *)
(* float values are fixed-point integers, Unit standing for 1.0, every     *)
(* product and quotient rounded to nearest; NaN is the result of 0/0 and   *)
(* of every operation that has a NaN operand.                              *)
(***************************************************************************)
EXTENDS Integers, Sequences, FiniteSets, TLC

\* Largest number of records created by addObject in one run.
MaxCreates == 3

\* Largest number of camera changes (setCamera* calls and camera moves) in
\* one run.
MaxCameraOps == 2

\* Abstract values of a baked model matrix.
Transforms == {"M0", "M1"}

\* obj.vertices.size() of an object descriptor (normals and colours alike)
VertexCounts == {1, 2}

\* 1.0f
Unit == 1000
\* the float NaN
NaN == -999999999

\* the window size every example passes to init
InitWidth == 800
InitHeight == 600

GLFW_MOUSE_BUTTON_LEFT == 0
GLFW_MOUSE_BUTTON_MIDDLE == 2

InitOutcomes == {"ok", "window", "opengl", "vertex", "geometry", "fragment"}
Keys == {"DELETE", "T", "R", "S", "LEFT", "UP", "PAGE_UP", "PAGE_DOWN", "OTHER"}

VARIABLES
    status,                       \* "running" | "aborted" (assert) | "crashed" (UB)
    initWasCalled,                \* static bool initWasCalled
    windowPtr,                    \* "null" | "open" | "closed" (GLFW terminated)
    internalObjects,              \* std::vector<object_internal>
    selectedObjectIndex,          \* internalScene.selectedObjectIndex
    currentMouseButton,           \* internalScene.currentMouseButton
    isMouseOverGui,               \* internalScene.isMouseOverGui
    guizmoOp,                     \* internalScene.guizmoOp
    cameraWasChangedInLastframe,  \* internalScene.cameraWasChangedInLastframe
    eye,                          \* internalScene.eye
    at,                           \* internalScene.at
    up,                           \* internalScene.up
    zNear,                        \* internalScene.zNear
    zFar,                         \* internalScene.zFar
    width_internal,               \* static int width_internal
    height_internal,              \* static int height_internal
    bakedLookAtMatrix,            \* internalScene.bakedLookAtMatrix
    bakedPerspectiveMatrix,       \* internalScene.bakedPerspectiveMatrix
    cameraOps,                    \* camera changes made so far
    gizmoUsing,                   \* ImGuizmo::IsUsing()
    mouseDown,                    \* buttons physically held (GLFW window state)
    keyS,                         \* glfwGetKey(GLFW_KEY_S)
    frame,                        \* next call of the client loop, or "poll"
    created,                      \* number of records built by _internalCreateObject
    allocated,                    \* GPU handle sets generated by glGen*
    released,                     \* handle -> number of glDelete* calls on it
    lastOp,                       \* the call made by the last step and its result
    frameOut,                     \* draw / list / gizmo output of the last step
    liveIds,                      \* ids returned by addObject and not deleted since
    lifecycle,                    \* what the client did last about init/terminate
    cdc,                          \* progress of a create -> delete -> create run
    history                       \* peak live count; the target the pointer had at
                                  \* the last press, did the drag move the camera

cameraVars == <<eye, at, up, zNear, zFar, width_internal, height_internal,
                bakedLookAtMatrix, bakedPerspectiveMatrix, cameraOps>>
sceneVars == <<selectedObjectIndex, currentMouseButton, isMouseOverGui, guizmoOp,
               cameraWasChangedInLastframe, gizmoUsing, mouseDown, keyS, cameraVars>>
gpuVars == <<created, allocated, released>>
vars == <<status, initWasCalled, windowPtr, internalObjects, sceneVars, frame,
          gpuVars, lastOp, frameOut, liveIds, lifecycle, cdc, history>>

----------------------------------------------------------------------------
(* Helpers over the registry                                               *)

Size == Len(internalObjects)
Ids == 0 .. Size - 1
Obj(i) == internalObjects[i + 1]
InRange(id) == id >= 0 /\ id < Size

Op(name, id, ret, ok) == [op |-> name, id |-> id, ret |-> ret, ok |-> ok]
\* what a step drew, listed and handed to the gizmo, the glBufferSubData
\* calls it made (<<buffer, offset, size, accepted>>, in v3f), the arguments
\* of its _internalCameraMove call and <<eye, at, up>> as the call found them
NoOut == [drawn |-> <<>>, listed |-> <<>>, manipulated |-> -1,
          written |-> <<>>, moved |-> <<>>, before |-> <<>>]
NoCdc == [stage |-> 0, id |-> -1, ret |-> -1]
\* no object was live yet; no button is held
NoDrag == [moved |-> FALSE, target |-> "none"]
NoHistory == [peakLive |-> 0, drag |-> NoDrag]

\* LiveLoop without the `if (isDeleted) continue`: every index from i on
LiveLoop_NoSkip(objs, i) == [k \in 1 .. Len(objs) - i |-> i + k - 1]

\* the for loop of render() and of _internalRenderGui(): indices in
\* increasing order, skipping records flagged isDeleted
RECURSIVE LiveLoop(_, _)
LiveLoop(objs, i) ==
    IF i >= Len(objs) THEN <<>>
    ELSE IF objs[i + 1].isDeleted THEN LiveLoop(objs, i + 1)
    ELSE <<i>> \o LiveLoop(objs, i + 1)

\* _internalGetNextFreeIndex: first index whose record is deleted, else size
RECURSIVE NextFreeFrom(_, _)
NextFreeFrom(objs, i) ==
    IF i >= Len(objs) THEN Len(objs)
    ELSE IF objs[i + 1].isDeleted THEN i
    ELSE NextFreeFrom(objs, i + 1)

\* _internalGetNextFreeIndex that never finds a deleted record
internalGetNextFreeIndex_AppendOnly(objs) == Len(objs)

internalGetNextFreeIndex(objs) == NextFreeFrom(objs, 0)

\* glDeleteBuffers / glDeleteVertexArrays on the handles h of one record:
\* counted when a context is current and the name is not 0
ReleaseHandles(rel, h) ==
    IF windowPtr = "open" /\ h # 0 THEN [rel EXCEPT ![h] = @ + 1] ELSE rel

\* _internalDeleteObject without the early return on isDeleted
internalDeleteObject_NoGuard(objs, rel, index) ==
    [objs |-> [objs EXCEPT ![index + 1].isDeleted = TRUE],
     rel |-> ReleaseHandles(rel, objs[index + 1].buffers),
     ret |-> TRUE]

\* _internalDeleteObject that releases the handles but does not flag the record
internalDeleteObject_NoFlag(objs, rel, index) ==
    IF objs[index + 1].isDeleted
    THEN [objs |-> objs, rel |-> rel, ret |-> FALSE]
    ELSE [objs |-> objs,
          rel |-> ReleaseHandles(rel, objs[index + 1].buffers),
          ret |-> TRUE]

\* _internalDeleteObject(index) on registry objs and release counts rel:
\* both afterwards, and the return value
internalDeleteObject(objs, rel, index) ==
    IF objs[index + 1].isDeleted
    THEN [objs |-> objs, rel |-> rel, ret |-> FALSE]
    ELSE [objs |-> [objs EXCEPT ![index + 1].isDeleted = TRUE],
          rel |-> ReleaseHandles(rel, objs[index + 1].buffers),
          ret |-> TRUE]

\* _internalTryDeleteObject(id)
internalTryDeleteObject(objs, rel, id) ==
    IF id < 0 \/ id >= Len(objs)
    THEN [objs |-> objs, rel |-> rel, ret |-> FALSE]
    ELSE internalDeleteObject(objs, rel, id)

----------------------------------------------------------------------------
(* float, v3f and m4                                                       *)

IsNaN(a) == a = NaN
Abs(a) == IF a < 0 THEN -a ELSE a
Max3(a, b, c) == IF a >= b /\ a >= c THEN a ELSE IF b >= c THEN b ELSE c

\* a / b for integers, rounded to nearest
Round(a, b) ==
    LET q == (Abs(a) + (Abs(b) \div 2)) \div Abs(b)
    IN IF (a < 0) # (b < 0) THEN -q ELSE q

\* float +, -, * and /; x / 0 arises for x = 0 only (every divisor is a
\* length, a difference of the clipping planes or a window height)
FAdd(a, b) == IF IsNaN(a) \/ IsNaN(b) THEN NaN ELSE a + b
FSub(a, b) == IF IsNaN(a) \/ IsNaN(b) THEN NaN ELSE a - b
FMul(a, b) == IF IsNaN(a) \/ IsNaN(b) THEN NaN ELSE Round(a * b, Unit)
FDiv(a, b) == IF IsNaN(a) \/ IsNaN(b) \/ b = 0 THEN NaN ELSE Round(a * Unit, b)
FNeg(a) == IF IsNaN(a) THEN NaN ELSE -a

\* std::sqrt on a value scaled by Unit * Unit, to the nearest integer
RECURSIVE SqrtBetween(_, _, _)
SqrtBetween(n, lo, hi) ==
    IF lo >= hi THEN lo
    ELSE LET mid == (lo + hi + 1) \div 2
         IN IF mid * mid <= n THEN SqrtBetween(n, mid, hi)
            ELSE SqrtBetween(n, lo, mid - 1)
Sqrt(n) ==
    LET r == SqrtBetween(n, 0, 46340)
    IN IF n - r * r > r THEN r + 1 ELSE r

V3(x, y, z) == <<x, y, z>>
IsNaNVec(v) == IsNaN(v[1]) \/ IsNaN(v[2]) \/ IsNaN(v[3])
NaNVec == V3(NaN, NaN, NaN)

\* operator+, operator-, unary operator-, operator*(v3f, float),
\* operator/(v3f, float)
VAdd(l, r) == V3(FAdd(l[1], r[1]), FAdd(l[2], r[2]), FAdd(l[3], r[3]))
VSub(l, r) == V3(FSub(l[1], r[1]), FSub(l[2], r[2]), FSub(l[3], r[3]))
VNeg(l) == V3(FNeg(l[1]), FNeg(l[2]), FNeg(l[3]))
VMul(l, x) == V3(FMul(l[1], x), FMul(l[2], x), FMul(l[3], x))
VDiv(l, x) == V3(FDiv(l[1], x), FDiv(l[2], x), FDiv(l[3], x))

\* internalLength2, kept at full precision (scaled by Unit * Unit)
internalLength2(v) == v[1] * v[1] + v[2] * v[2] + v[3] * v[3]

\* internalLength; a vector too long for its squares to be summed is
\* measured in a coarser unit k, as a float trades precision for range
internalLength(v) ==
    LET m == Max3(Abs(v[1]), Abs(v[2]), Abs(v[3]))
        k == (m \div 26000) + 1
    IN IF IsNaNVec(v) THEN NaN
       ELSE k * Sqrt(internalLength2(V3(Round(v[1], k), Round(v[2], k), Round(v[3], k))))

\* internalNormalize: v / |v| with no test for |v| = 0
internalNormalize(v) ==
    LET vv == internalLength(v)
    IN V3(FDiv(v[1], vv), FDiv(v[2], vv), FDiv(v[3], vv))

internalCross(v1, v2) ==
    V3(FSub(FMul(v1[2], v2[3]), FMul(v1[3], v2[2])),
       FSub(FMul(v1[3], v2[1]), FMul(v1[1], v2[3])),
       FSub(FMul(v1[1], v2[2]), FMul(v1[2], v2[1])))

internalDot(v1, v2) ==
    FAdd(FAdd(FMul(v1[1], v2[1]), FMul(v1[2], v2[2])), FMul(v1[3], v2[3]))

\* an angle in radians, given by its cos() and sin()
Rad(c, s) == [c |-> c, s |-> s]
\* 0.0f, 0.1f and -0.1f as angles; NaN as an angle
Angle0 == Rad(Unit, 0)
KeyAngle == Rad(995, 100)
KeyAngleNeg == Rad(995, -100)
NaNAngle == Rad(NaN, NaN)
\* the angle of a 3-4-5 triangle (0.927 rad), as a fast drag gives
DragAngle == Rad(600, 800)

\* m4(), the identity, in the entries perspectiveMatrix and lookAtMatrix set
IdentityPerspective == [m00 |-> Unit, m11 |-> Unit, m22 |-> Unit, m23 |-> 0, m32 |-> 0]
IdentityLookAt == [s |-> V3(Unit, 0, 0), u |-> V3(0, Unit, 0), f |-> V3(0, 0, Unit),
                   t |-> V3(0, 0, 0)]

\* perspectiveMatrix(zNear, zFar, width, height): the entries it sets
perspectiveMatrix(n, f, w, h) ==
    LET tanHalfFovy == 414
        aspect == FDiv(w * Unit, h * Unit)
    IN [m00 |-> FDiv(Unit, FMul(aspect, tanHalfFovy)),
        m11 |-> FDiv(Unit, tanHalfFovy),
        m22 |-> FNeg(FDiv(FAdd(f, n), FSub(f, n))),
        m23 |-> -Unit,
        m32 |-> FNeg(FDiv(FMul(2 * f, n), FSub(f, n)))]

\* lookAtMatrix(eye, at): the entries it sets
lookAtMatrix(e, a) ==
    LET f == internalNormalize(VSub(a, e))
        s == internalNormalize(internalCross(f, V3(0, Unit, 0)))
        u == internalCross(s, f)
    IN [s |-> s, u |-> u, f |-> VNeg(f),
        t |-> V3(FNeg(internalDot(s, e)), FNeg(internalDot(u, e)), internalDot(f, e))]

----------------------------------------------------------------------------
(* _internalCameraMove on cam = [eye, at, up, changed], one branch each     *)

Camera == [eye |-> eye, at |-> at, up |-> up,
           changed |-> cameraWasChangedInLastframe]

\* if (x != 0.0f): rotation about the world y axis
Yaw(cam, x) ==
    IF x = Angle0 THEN cam
    ELSE LET f0 == VSub(cam.at, cam.eye)
             s0 == internalCross(cam.up, f0)
             f == V3(FSub(FMul(f0[1], x.c), FMul(f0[3], x.s)), f0[2],
                     FAdd(FMul(f0[1], x.s), FMul(f0[3], x.c)))
             s == V3(FSub(FMul(s0[1], x.c), FMul(s0[3], x.s)), 0,
                     FAdd(FMul(s0[1], x.s), FMul(s0[3], x.c)))
         IN [eye |-> VSub(cam.at, f), at |-> cam.at,
             up |-> internalNormalize(internalCross(s, VNeg(f))),
             changed |-> TRUE]

\* if (y != 0.0f): rotation towards up
Pitch(cam, y) ==
    IF y = Angle0 THEN cam
    ELSE LET f0 == VSub(cam.at, cam.eye)
             length == internalLength(f0)
             f1 == VDiv(f0, length)
             s == internalNormalize(internalCross(cam.up, f1))
             f == VAdd(VMul(f1, y.c), VMul(cam.up, y.s))
         IN [eye |-> VSub(cam.at, VMul(f, length)), at |-> cam.at,
             up |-> internalCross(f, s),
             changed |-> TRUE]

\* the z branch with the eye moved away from at for z > 0
Dolly_Reversed(cam, z) ==
    IF z = 0 THEN cam
    ELSE LET f == VSub(cam.at, cam.eye)
             moveScale == FMul(internalLength(f), 25)
         IN [cam EXCEPT !.eye = VSub(cam.eye,
                                     VMul(VMul(internalNormalize(f), z), moveScale)),
                        !.changed = TRUE]

\* if (z != 0.0f): the eye moves along at - eye by z * 2.5% of the distance
Dolly(cam, z) ==
    IF z = 0 THEN cam
    ELSE LET f == VSub(cam.at, cam.eye)
             moveScale == FMul(internalLength(f), 25)
         IN [cam EXCEPT !.eye = VAdd(cam.eye,
                                     VMul(VMul(internalNormalize(f), z), moveScale)),
                        !.changed = TRUE]

\* if (xPlane != 0.0f): eye and at move along the screen's horizontal
PanX(cam, xPlane) ==
    IF xPlane = 0 THEN cam
    ELSE LET f == VSub(cam.at, cam.eye)
             s == internalNormalize(internalCross(cam.up, f))
         IN [cam EXCEPT !.eye = VAdd(cam.eye, VMul(s, xPlane)),
                        !.at = VAdd(cam.at, VMul(s, xPlane)),
                        !.changed = TRUE]

\* if (yPlane != 0.0f): eye and at move along up
PanY(cam, yPlane) ==
    IF yPlane = 0 THEN cam
    ELSE [cam EXCEPT !.eye = VAdd(cam.eye, VMul(cam.up, yPlane)),
                     !.at = VAdd(cam.at, VMul(cam.up, yPlane)),
                     !.changed = TRUE]

NoMove == <<Angle0, Angle0, 0, 0, 0>>

\* _internalCameraMove(x, y, z, xPlane, yPlane)
internalCameraMove(x, y, z, xPlane, yPlane) ==
    LET cam == PanY(PanX(Dolly(Pitch(Yaw(Camera, x), y), z), xPlane), yPlane)
    IN /\ eye' = cam.eye
       /\ at' = cam.at
       /\ up' = cam.up
       /\ cameraWasChangedInLastframe' = cam.changed
       /\ cameraOps' = IF <<x, y, z, xPlane, yPlane>> = NoMove
                       THEN cameraOps ELSE cameraOps + 1

\* the call is not made
NoCameraMove == UNCHANGED <<eye, at, up, cameraWasChangedInLastframe, cameraOps>>

----------------------------------------------------------------------------
Init ==
    /\ status = "running"
    /\ initWasCalled = FALSE
    /\ windowPtr = "null"
    /\ internalObjects = <<>>
    /\ selectedObjectIndex = -1
    /\ currentMouseButton = -1
    /\ isMouseOverGui = FALSE
    /\ guizmoOp = "TRANSLATE"
    /\ cameraWasChangedInLastframe = TRUE
    /\ eye = V3(10 * Unit, 0, 0)
    /\ at = V3(0, 0, 0)
    /\ up = V3(0, Unit, 0)
    /\ zNear = Unit \div 10
    /\ zFar = 500 * Unit
    /\ width_internal = 0
    /\ height_internal = 0
    /\ bakedLookAtMatrix = IdentityLookAt
    /\ bakedPerspectiveMatrix = IdentityPerspective
    /\ cameraOps = 0
    /\ gizmoUsing = FALSE
    /\ mouseDown = {}
    /\ keyS = FALSE
    /\ frame = "update"
    /\ created = 0
    /\ allocated = {}
    /\ released = [h \in 1 .. MaxCreates |-> 0]
    /\ lastOp = Op("start", -1, -1, FALSE)
    /\ frameOut = NoOut
    /\ liveIds = {}
    /\ lifecycle = "fresh"
    /\ cdc = NoCdc
    /\ history = NoHistory

\* a failed assert(): the process ends, nothing else changes
Abort(name, id) ==
    /\ status' = "aborted"
    /\ lastOp' = Op(name, id, -1, FALSE)
    /\ frameOut' = NoOut
    /\ UNCHANGED <<initWasCalled, windowPtr, internalObjects, sceneVars, frame,
                   gpuVars, liveIds, lifecycle, cdc, history>>

\* undefined behaviour that kills the process
Crash(name, id) ==
    /\ status' = "crashed"
    /\ lastOp' = Op(name, id, -1, FALSE)
    /\ frameOut' = NoOut
    /\ UNCHANGED <<initWasCalled, windowPtr, internalObjects, sceneVars, frame,
                   gpuVars, liveIds, lifecycle, cdc, history>>

Client == status = "running" /\ frame # "poll"


----------------------------------------------------------------------------
(* Window and frame functions                                              *)

\* init(windowName, width, height); outcome says which step fails, if any
init(outcome) ==
    /\ Client
    /\ frame = "update"
    /\ windowPtr # "open"
    /\ windowPtr' = CASE outcome = "window" -> "null"
                      [] outcome = "opengl" -> "closed"
                      [] OTHER -> "open"
    /\ initWasCalled' = IF outcome = "ok" THEN TRUE ELSE initWasCalled
    /\ lifecycle' = IF outcome = "ok" THEN "initialised" ELSE "initFailed"
    /\ width_internal' = InitWidth
    /\ height_internal' = InitHeight
    /\ lastOp' = Op("init", -1, -1, outcome = "ok")
    /\ frameOut' = NoOut
    /\ UNCHANGED <<status, internalObjects, selectedObjectIndex, currentMouseButton,
                   isMouseOverGui, guizmoOp, cameraWasChangedInLastframe, gizmoUsing,
                   mouseDown, keyS, eye, at, up, zNear, zFar, bakedLookAtMatrix,
                   bakedPerspectiveMatrix, cameraOps, frame, gpuVars, liveIds, cdc,
                   history>>

\* an angle or a distance multiplied by scale * camSpeed * k: 0 for scale = 0,
\* NaN for scale = NaN
ScaledAngle(a, scale) ==
    IF IsNaN(scale) THEN NaNAngle ELSE IF scale = 0 THEN Angle0 ELSE a
ScaledLength(d, scale) ==
    IF IsNaN(scale) THEN NaN ELSE IF scale = 0 THEN 0 ELSE d

\* what update() passes to _internalCameraMove.  xoffset, yoffset: the
\* cursor's move since the previous update, counted in the move that the
\* scaling by mouseSensitivity * scale * camSpeed turns into DragAngle for
\* the left button and into 1.0 for the middle button
UpdateMove(xoffset, yoffset) ==
    LET scale == internalLength(VSub(at, eye))
        left == currentMouseButton = GLFW_MOUSE_BUTTON_LEFT
        middle == currentMouseButton = GLFW_MOUSE_BUTTON_MIDDLE
        angle(o) == CASE ~left \/ o = 0 -> Angle0
                      [] o > 0 -> DragAngle
                      [] OTHER -> Rad(DragAngle.c, -DragAngle.s)
    IN <<ScaledAngle(angle(xoffset), scale),
         ScaledAngle(angle(yoffset), scale),
         ScaledLength(0, scale),
         ScaledLength(IF middle THEN xoffset * Unit ELSE 0, scale),
         ScaledLength(IF middle THEN yoffset * Unit ELSE 0, scale)>>

\* who takes the cursor's moves: update() hands them to the camera unless the
\* GUI had the pointer at the last render or a gizmo handle is being dragged
PointerTarget ==
    IF ~isMouseOverGui /\ ~gizmoUsing THEN "camera"
    ELSE IF gizmoUsing THEN "gizmo" ELSE "nothing"

\* update(); xoffset, yoffset: see UpdateMove
update(xoffset, yoffset) ==
    /\ Client
    /\ frame = "update"
    /\ IF ~initWasCalled
       THEN Abort("update", -1)
       ELSE LET mv == UpdateMove(xoffset, yoffset)
            IN /\ IF ~isMouseOverGui /\ ~gizmoUsing
                  THEN /\ mv # NoMove => cameraOps < MaxCameraOps
                       /\ internalCameraMove(mv[1], mv[2], mv[3], mv[4], mv[5])
                       /\ frameOut' = [NoOut EXCEPT !.moved = mv,
                                                    !.before = <<eye, at, up>>]
                  ELSE /\ NoCameraMove
                       /\ frameOut' = NoOut
               /\ frame' = "render"
               /\ history' = IF currentMouseButton # -1 /\ PointerTarget = "camera"
                                /\ mv # NoMove
                             THEN [history EXCEPT !.drag.moved = TRUE]
                             ELSE history
               /\ lastOp' = Op("update", -1, -1, TRUE)
               /\ UNCHANGED <<status, initWasCalled, windowPtr, internalObjects,
                              selectedObjectIndex, currentMouseButton, isMouseOverGui,
                              guizmoOp, gizmoUsing, mouseDown, keyS, zNear, zFar,
                              width_internal, height_internal, bakedLookAtMatrix,
                              bakedPerspectiveMatrix, gpuVars, liveIds, lifecycle, cdc>>

\* render(); wantCapture: ImGui::GetIO().WantCaptureMouse, click: the scene
\* list entry whose Selectable() returns true (-1: none), use: IsUsing() as
\* Manipulate() leaves it, m: the matrix a gizmo drag writes
render(wantCapture, click, use, m) ==
    /\ status = "running"
    /\ frame # "poll"
    /\ frame = "render" \/ ~initWasCalled
    /\ IF ~initWasCalled
       THEN Abort("render", -1)
       ELSE \/ /\ windowPtr # "open" \/ (selectedObjectIndex # -1 /\ ~InRange(selectedObjectIndex))
               /\ Crash("render", -1)
            \/ /\ click # -1 => (wantCapture /\ InRange(click) /\ ~Obj(click).isDeleted)
               /\ bakedLookAtMatrix' = IF cameraWasChangedInLastframe
                                        THEN lookAtMatrix(eye, at)
                                        ELSE bakedLookAtMatrix
               /\ bakedPerspectiveMatrix' =
                      IF cameraWasChangedInLastframe
                      THEN perspectiveMatrix(zNear, zFar, width_internal, height_internal)
                      ELSE bakedPerspectiveMatrix
               /\ cameraWasChangedInLastframe' = FALSE
               /\ isMouseOverGui' = wantCapture
               /\ IF selectedObjectIndex = -1
                  THEN /\ use = gizmoUsing
                       /\ m = "M0"
                       /\ UNCHANGED <<gizmoUsing, internalObjects>>
                  ELSE /\ use => GLFW_MOUSE_BUTTON_LEFT \in mouseDown
                       /\ gizmoUsing' = use
                       /\ IF use /\ InRange(selectedObjectIndex)
                          THEN internalObjects' = [internalObjects EXCEPT
                                   ![selectedObjectIndex + 1].modelMatrix = m]
                          ELSE m = "M0" /\ UNCHANGED internalObjects
               /\ selectedObjectIndex' = IF click # -1 THEN click ELSE selectedObjectIndex
               /\ frameOut' = [NoOut EXCEPT !.drawn = LiveLoop(internalObjects, 0),
                                            !.listed = LiveLoop(internalObjects, 0),
                                            !.manipulated = selectedObjectIndex]
               /\ frame' = "swap"
               /\ lastOp' = Op("render", -1, -1, TRUE)
               /\ UNCHANGED <<status, initWasCalled, windowPtr, currentMouseButton,
                              guizmoOp, mouseDown, keyS, eye, at, up, zNear, zFar,
                              width_internal, height_internal, cameraOps, gpuVars,
                              liveIds, lifecycle, cdc, history>>

\* swap(): with a window, glfwPollEvents() then runs the queued callbacks
swap ==
    /\ status = "running"
    /\ frame # "poll"
    /\ frame = "swap" \/ ~initWasCalled
    /\ IF ~initWasCalled
       THEN Abort("swap", -1)
       ELSE \/ /\ windowPtr # "open"
               /\ Crash("swap", -1)
            \/ /\ frame' = IF windowPtr = "open" THEN "poll" ELSE "update"
               /\ lastOp' = Op("swap", -1, -1, TRUE)
               /\ frameOut' = NoOut
               /\ UNCHANGED <<status, initWasCalled, windowPtr, internalObjects,
                              sceneVars, gpuVars, liveIds, lifecycle, cdc, history>>

\* the loop of terminate(): _internalDeleteObject(i) for every index
RECURSIVE DeleteAll(_, _, _)
DeleteAll(objs, rel, i) ==
    IF i >= Len(objs) THEN [objs |-> objs, rel |-> rel]
    ELSE LET r == internalDeleteObject(objs, rel, i)
         IN DeleteAll(r.objs, r.rel, i + 1)

\* terminate()
terminate ==
    /\ Client
    /\ frame = "update"
    /\ IF ~initWasCalled
       THEN Abort("terminate", -1)
       ELSE \/ /\ windowPtr # "open"
               /\ \E i \in Ids : ~Obj(i).isDeleted
               /\ Crash("terminate", -1)
            \/ /\ released' = DeleteAll(internalObjects, released, 0).rel
               /\ internalObjects' = <<>>
               /\ windowPtr' = "closed"
               /\ mouseDown' = {}
               /\ keyS' = FALSE
               /\ liveIds' = {}
               /\ lifecycle' = "terminated"
               /\ cdc' = NoCdc
               /\ history' = [history EXCEPT !.peakLive = 0]
               /\ lastOp' = Op("terminate", Size - Len(LiveLoop(internalObjects, 0)),
                               Len(LiveLoop(internalObjects, 0)), TRUE)
               /\ frameOut' = NoOut
               /\ UNCHANGED <<status, initWasCalled, selectedObjectIndex,
                              currentMouseButton, isMouseOverGui, guizmoOp,
                              cameraWasChangedInLastframe, gizmoUsing, cameraVars,
                              frame, created, allocated>>

----------------------------------------------------------------------------
(* Object management                                                       *)

\* _internalCreateObject(obj): the record it returns; the handles are
\* generated only when a context is current.  n: obj.vertices.size(); the
\* buffer is allocated for n vertices, n normals and n colours
internalCreateObject(m, n) ==
    [buffers |-> IF windowPtr = "open" THEN created + 1 ELSE 0,
     uid |-> created + 1,
     modelMatrix |-> m,
     vertexCount |-> n,
     isDeleted |-> FALSE]

\* addObject that always writes the first slot of a non-empty registry
StoreObject_FirstSlot(objs, index, rec) ==
    IF Len(objs) = 0 THEN Append(objs, rec) ELSE [objs EXCEPT ![1] = rec]

\* where addObject stores the new record
StoreObject(objs, index, rec) ==
    IF index = Len(objs) THEN Append(objs, rec) ELSE [objs EXCEPT ![index + 1] = rec]

\* addObject(obj); m: the model matrix of obj, n: its vertex count
addObject(m, n) ==
    /\ Client
    /\ created < MaxCreates
    /\ IF ~initWasCalled
       THEN Abort("addObject", -1)
       ELSE \/ /\ windowPtr # "open"
               /\ Crash("addObject", -1)
            \/ LET internalObject == internalCreateObject(m, n)
                   index == internalGetNextFreeIndex(internalObjects)
               IN /\ internalObjects' = StoreObject(internalObjects, index, internalObject)
                  /\ created' = created + 1
                  /\ allocated' = IF windowPtr = "open"
                                  THEN allocated \cup {internalObject.buffers}
                                  ELSE allocated
                  /\ liveIds' = liveIds \cup {index}
                  /\ cdc' = IF cdc.stage = 2
                            THEN [stage |-> 3, id |-> cdc.id, ret |-> index]
                            ELSE [stage |-> 1, id |-> index, ret |-> index]
                  /\ history' = [history EXCEPT !.peakLive =
                                     LET live == Len(LiveLoop(internalObjects, 0)) + 1
                                     IN IF live > @ THEN live ELSE @]
                  /\ lastOp' = Op("addObject", -1, index, TRUE)
                  /\ frameOut' = NoOut
                  /\ UNCHANGED <<status, initWasCalled, windowPtr, sceneVars, frame,
                                 released, lifecycle>>

\* the create -> delete -> create monitor after a delete of id
CdcAfterDelete(id, success) ==
    IF success /\ cdc.stage \in {1, 3} /\ cdc.ret = id
    THEN [stage |-> 2, id |-> id, ret |-> -1]
    ELSE NoCdc

\* removeObject without the range assertion, going through
\* _internalTryDeleteObject as the Delete key does
removeObject_Try(id) ==
    /\ Client
    /\ IF ~initWasCalled
       THEN Abort("removeObject", id)
       ELSE LET r == internalTryDeleteObject(internalObjects, released, id)
            IN /\ internalObjects' = r.objs
               /\ released' = r.rel
               /\ liveIds' = IF r.ret THEN liveIds \ {id} ELSE liveIds
               /\ cdc' = CdcAfterDelete(id, r.ret)
               /\ lastOp' = Op("removeObject", id, -1, r.ret)
               /\ frameOut' = NoOut
               /\ UNCHANGED <<status, initWasCalled, windowPtr, sceneVars, frame,
                              created, allocated, lifecycle, history>>

\* removeObject(id)
removeObject(id) ==
    /\ Client
    /\ IF ~initWasCalled \/ ~(id >= 0 /\ id < Size)
       THEN Abort("removeObject", id)
       ELSE \/ /\ windowPtr # "open"
               /\ ~Obj(id).isDeleted
               /\ Crash("removeObject", id)
            \/ LET r == internalDeleteObject(internalObjects, released, id)
               IN /\ internalObjects' = r.objs
                  /\ released' = r.rel
                  /\ liveIds' = IF r.ret THEN liveIds \ {id} ELSE liveIds
                  /\ cdc' = CdcAfterDelete(id, r.ret)
                  /\ lastOp' = Op("removeObject", id, -1, r.ret)
                  /\ frameOut' = NoOut
                  /\ UNCHANGED <<status, initWasCalled, windowPtr, sceneVars, frame,
                                 created, allocated, lifecycle, history>>

\* glBufferSubData(GL_ARRAY_BUFFER, offset, size, data) on the buffer of rec,
\* in units of sizeof(v3f): GL rejects the call (GL_INVALID_VALUE, nothing
\* written) when offset + size exceeds the size the buffer was allocated with
BufferSubData(rec, offset, size) ==
    <<rec.buffers, offset, size, offset + size <= 3 * rec.vertexCount>>

\* _internalUpdateObject(id, newObj): the uploads of n vertices, n normals
\* and n colours
internalUpdateObject(id, n) ==
    <<BufferSubData(Obj(id), 0, n), BufferSubData(Obj(id), n, n),
      BufferSubData(Obj(id), 2 * n, n)>>

\* _internalUpdateObject(id, newColors): the upload of n colours
internalUpdateObjectColors(id, n) ==
    <<BufferSubData(Obj(id), 2 * n, n)>>

\* updateObject(id, obj): _internalUpdateObject rebinds the record's buffers,
\* re-uploads and recomputes the model matrix; n: obj.vertices.size()
updateObject(id, m, n) ==
    /\ Client
    /\ IF ~initWasCalled \/ ~(id >= 0 /\ id < Size)
       THEN Abort("updateObject", id)
       ELSE \/ /\ windowPtr # "open"
               /\ Crash("updateObject", id)
            \/ /\ internalObjects' = [internalObjects EXCEPT ![id + 1].modelMatrix = m]
               /\ lastOp' = Op("updateObject", id, n, TRUE)
               /\ frameOut' = [NoOut EXCEPT !.written = internalUpdateObject(id, n)]
               /\ UNCHANGED <<status, initWasCalled, windowPtr, sceneVars, frame,
                              gpuVars, liveIds, lifecycle, cdc, history>>

\* updateObject(id, position, rotation, scale) without the assertion on id
updateObjectTransform_NoRangeCheck(id, m) ==
    /\ Client
    /\ IF ~initWasCalled
       THEN Abort("updateObjectTransform", id)
       ELSE /\ internalObjects' = IF id >= 0 /\ id < Size
                                  THEN [internalObjects EXCEPT ![id + 1].modelMatrix = m]
                                  ELSE internalObjects
            /\ lastOp' = Op("updateObjectTransform", id, -1, TRUE)
            /\ frameOut' = NoOut
            /\ UNCHANGED <<status, initWasCalled, windowPtr, sceneVars, frame,
                           gpuVars, liveIds, lifecycle, cdc, history>>

\* updateObject(id, position, rotation, scale) that recomposes the model
\* matrix of every record
updateObjectTransform_AllRecords(id, m) ==
    /\ Client
    /\ IF ~initWasCalled \/ ~(id >= 0 /\ id < Size)
       THEN Abort("updateObjectTransform", id)
       ELSE /\ internalObjects' = [k \in 1 .. Size |->
                                      [internalObjects[k] EXCEPT !.modelMatrix = m]]
            /\ lastOp' = Op("updateObjectTransform", id, -1, TRUE)
            /\ frameOut' = NoOut
            /\ UNCHANGED <<status, initWasCalled, windowPtr, sceneVars, frame,
                           gpuVars, liveIds, lifecycle, cdc, history>>

\* updateObject(id, position, rotation, scale)
updateObjectTransform(id, m) ==
    /\ Client
    /\ IF ~initWasCalled \/ ~(id >= 0 /\ id < Size)
       THEN Abort("updateObjectTransform", id)
       ELSE /\ internalObjects' = [internalObjects EXCEPT ![id + 1].modelMatrix = m]
            /\ lastOp' = Op("updateObjectTransform", id, -1, TRUE)
            /\ frameOut' = NoOut
            /\ UNCHANGED <<status, initWasCalled, windowPtr, sceneVars, frame,
                           gpuVars, liveIds, lifecycle, cdc, history>>

\* updateObject(id, newColors); n: newColors.size()
updateObjectColors(id, n) ==
    /\ Client
    /\ IF ~initWasCalled \/ ~(id >= 0 /\ id < Size) \/ n = 0
       THEN Abort("updateObjectColors", id)
       ELSE \/ /\ windowPtr # "open"
               /\ Crash("updateObjectColors", id)
            \/ /\ lastOp' = Op("updateObjectColors", id, n, TRUE)
               /\ frameOut' = [NoOut EXCEPT !.written = internalUpdateObjectColors(id, n)]
               /\ UNCHANGED <<status, initWasCalled, windowPtr, internalObjects,
                              sceneVars, frame, gpuVars, liveIds, lifecycle, cdc,
                              history>>

----------------------------------------------------------------------------
(* Camera setters                                                          *)

\* setCameraEye(newEye)
setCameraEye(newEye) ==
    /\ Client
    /\ cameraOps < MaxCameraOps
    /\ eye' = newEye
    /\ cameraOps' = cameraOps + 1
    /\ lastOp' = Op("setCameraEye", -1, -1, TRUE)
    /\ frameOut' = NoOut
    /\ UNCHANGED <<status, initWasCalled, windowPtr, internalObjects,
                   selectedObjectIndex, currentMouseButton, isMouseOverGui, guizmoOp,
                   cameraWasChangedInLastframe, gizmoUsing, mouseDown, keyS, at, up,
                   zNear, zFar, width_internal, height_internal, bakedLookAtMatrix,
                   bakedPerspectiveMatrix, frame, gpuVars, liveIds, lifecycle, cdc,
                   history>>

\* setCameraAt(newAt)
setCameraAt(newAt) ==
    /\ Client
    /\ cameraOps < MaxCameraOps
    /\ at' = newAt
    /\ cameraOps' = cameraOps + 1
    /\ lastOp' = Op("setCameraAt", -1, -1, TRUE)
    /\ frameOut' = NoOut
    /\ UNCHANGED <<status, initWasCalled, windowPtr, internalObjects,
                   selectedObjectIndex, currentMouseButton, isMouseOverGui, guizmoOp,
                   cameraWasChangedInLastframe, gizmoUsing, mouseDown, keyS, eye, up,
                   zNear, zFar, width_internal, height_internal, bakedLookAtMatrix,
                   bakedPerspectiveMatrix, frame, gpuVars, liveIds, lifecycle, cdc,
                   history>>

\* setCameraPlanes(near, far)
setCameraPlanes(near, far) ==
    /\ Client
    /\ cameraOps < MaxCameraOps
    /\ zNear' = near
    /\ zFar' = far
    /\ cameraOps' = cameraOps + 1
    /\ lastOp' = Op("setCameraPlanes", -1, -1, TRUE)
    /\ frameOut' = NoOut
    /\ UNCHANGED <<status, initWasCalled, windowPtr, internalObjects,
                   selectedObjectIndex, currentMouseButton, isMouseOverGui, guizmoOp,
                   cameraWasChangedInLastframe, gizmoUsing, mouseDown, keyS, eye, at,
                   up, width_internal, height_internal, bakedLookAtMatrix,
                   bakedPerspectiveMatrix, frame, gpuVars, liveIds, lifecycle, cdc,
                   history>>

----------------------------------------------------------------------------
(* GLFW callbacks, run by glfwPollEvents() inside swap()                   *)

Polling == status = "running" /\ frame = "poll"

\* _internalWindowResizeCallback(window, w, h)
internalWindowResizeCallback(w, h) ==
    /\ Polling
    /\ <<w, h>> # <<width_internal, height_internal>>
    /\ width_internal' = w
    /\ height_internal' = h
    /\ cameraWasChangedInLastframe' = TRUE
    /\ lastOp' = Op("resize", -1, -1, TRUE)
    /\ frameOut' = NoOut
    /\ UNCHANGED <<status, initWasCalled, windowPtr, internalObjects,
                   selectedObjectIndex, currentMouseButton, isMouseOverGui, guizmoOp,
                   gizmoUsing, mouseDown, keyS, eye, at, up, zNear, zFar,
                   bakedLookAtMatrix, bakedPerspectiveMatrix, cameraOps, frame,
                   gpuVars, liveIds, lifecycle, cdc, history>>

\* _internalMouseButtonCallback(window, button, action, mods)
internalMouseButtonCallback(button, action) ==
    /\ Polling
    /\ IF action = "PRESS"
       THEN /\ button \notin mouseDown
            /\ mouseDown' = mouseDown \cup {button}
            /\ currentMouseButton' = button
            /\ history' = [history EXCEPT !.drag = [moved |-> FALSE,
                                                    target |-> PointerTarget]]
            /\ UNCHANGED selectedObjectIndex
       ELSE /\ button \in mouseDown
            /\ mouseDown' = mouseDown \ {button}
            /\ currentMouseButton' = -1
            /\ selectedObjectIndex' = IF ~isMouseOverGui /\ ~gizmoUsing
                                      THEN -1
                                      ELSE selectedObjectIndex
            /\ history' = [history EXCEPT !.drag = NoDrag]
    /\ lastOp' = Op("mouse" \o action, button, -1, TRUE)
    /\ frameOut' = NoOut
    /\ UNCHANGED <<status, initWasCalled, windowPtr, internalObjects, isMouseOverGui,
                   guizmoOp, cameraWasChangedInLastframe, gizmoUsing, keyS,
                   cameraVars, frame, gpuVars, liveIds, lifecycle, cdc>>

\* _internalScrollCallback behind the test the key callback and update() make
\* before they move the camera
internalScrollCallback_Gated(y) ==
    LET z == FMul(y * Unit, 2 * Unit)
    IN /\ Polling
       /\ y # 0
       /\ cameraOps < MaxCameraOps
       /\ IF ~isMouseOverGui /\ ~gizmoUsing
          THEN /\ internalCameraMove(Angle0, Angle0, z, 0, 0)
               /\ frameOut' = [NoOut EXCEPT !.moved = <<Angle0, Angle0, z, 0, 0>>,
                                            !.before = <<eye, at, up>>]
          ELSE /\ NoCameraMove
               /\ frameOut' = NoOut
       /\ lastOp' = Op("scroll", -1, -1, TRUE)
       /\ UNCHANGED <<status, initWasCalled, windowPtr, internalObjects,
                      selectedObjectIndex, currentMouseButton, isMouseOverGui,
                      guizmoOp, gizmoUsing, mouseDown, keyS, zNear, zFar,
                      width_internal, height_internal, bakedLookAtMatrix,
                      bakedPerspectiveMatrix, frame, gpuVars, liveIds, lifecycle, cdc,
                      history>>

\* _internalScrollCallback(window, x, y); y in whole wheel steps, y # 0
internalScrollCallback(y) ==
    LET z == FMul(y * Unit, 2 * Unit)
    IN /\ Polling
       /\ y # 0
       /\ cameraOps < MaxCameraOps
       /\ internalCameraMove(Angle0, Angle0, z, 0, 0)
       /\ lastOp' = Op("scroll", -1, -1, TRUE)
       /\ frameOut' = [NoOut EXCEPT !.moved = <<Angle0, Angle0, z, 0, 0>>,
                                    !.before = <<eye, at, up>>]
       /\ UNCHANGED <<status, initWasCalled, windowPtr, internalObjects,
                      selectedObjectIndex, currentMouseButton, isMouseOverGui,
                      guizmoOp, gizmoUsing, mouseDown, keyS, zNear, zFar,
                      width_internal, height_internal, bakedLookAtMatrix,
                      bakedPerspectiveMatrix, frame, gpuVars, liveIds, lifecycle, cdc,
                      history>>

\* _internalKeyCallback(window, key, scancode, action, mods); GLFW records
\* the new key state before it runs the callback
internalKeyCallback(key, action) ==
    /\ Polling
    /\ IF action = "RELEASE"
       THEN /\ key = "S" /\ keyS
            /\ keyS' = FALSE
            /\ lastOp' = Op("keyRELEASE", -1, -1, TRUE)
            /\ frameOut' = NoOut
            /\ UNCHANGED <<status, initWasCalled, windowPtr, internalObjects,
                           selectedObjectIndex, currentMouseButton, isMouseOverGui,
                           guizmoOp, cameraWasChangedInLastframe, gizmoUsing,
                           mouseDown, cameraVars, frame, gpuVars, liveIds,
                           lifecycle, cdc, history>>
       ELSE LET sDown == keyS \/ key = "S"
                r == internalTryDeleteObject(internalObjects, released,
                                            selectedObjectIndex)
                bound == key \notin {"DELETE", "T", "R"} /\ ~sDown
                x == IF bound /\ key = "LEFT" THEN KeyAngleNeg ELSE Angle0
                y == IF bound /\ key = "UP" THEN KeyAngle ELSE Angle0
                z == CASE bound /\ key = "PAGE_UP" -> Unit \div 10
                       [] bound /\ key = "PAGE_DOWN" -> -(Unit \div 10)
                       [] OTHER -> 0
                mv == <<x, y, z, 0, 0>>
            IN /\ key = "S" => ~keyS
               /\ keyS' = sDown
               /\ IF key = "DELETE"
                  THEN /\ internalObjects' = r.objs
                       /\ released' = r.rel
                       /\ selectedObjectIndex' = IF r.ret THEN -1 ELSE selectedObjectIndex
                       /\ liveIds' = IF r.ret THEN liveIds \ {selectedObjectIndex}
                                     ELSE liveIds
                       /\ cdc' = IF r.ret THEN CdcAfterDelete(selectedObjectIndex, TRUE)
                                 ELSE cdc
                       /\ UNCHANGED guizmoOp
                  ELSE /\ guizmoOp' = CASE key = "T" -> "TRANSLATE"
                                        [] key = "R" -> "ROTATE"
                                        [] key \notin {"T", "R"} /\ sDown -> "SCALE"
                                        [] OTHER -> guizmoOp
                       /\ UNCHANGED <<internalObjects, released, selectedObjectIndex,
                                      liveIds, cdc>>
               /\ IF ~isMouseOverGui /\ ~gizmoUsing
                  THEN /\ mv # NoMove => cameraOps < MaxCameraOps
                       /\ internalCameraMove(x, y, z, 0, 0)
                       /\ frameOut' = [NoOut EXCEPT !.moved = mv,
                                                    !.before = <<eye, at, up>>]
                  ELSE /\ NoCameraMove
                       /\ frameOut' = NoOut
               /\ lastOp' = Op("key" \o key, selectedObjectIndex, -1,
                               key = "DELETE" /\ r.ret)
               /\ UNCHANGED <<status, initWasCalled, windowPtr, currentMouseButton,
                              isMouseOverGui, gizmoUsing, mouseDown, zNear, zFar,
                              width_internal, height_internal, bakedLookAtMatrix,
                              bakedPerspectiveMatrix, frame, created, allocated,
                              lifecycle, history>>

\* glfwPollEvents() returns and swap() with it
pollDone ==
    /\ Polling
    /\ frame' = "update"
    /\ lastOp' = Op("swapReturn", -1, -1, TRUE)
    /\ frameOut' = NoOut
    /\ UNCHANGED <<status, initWasCalled, windowPtr, internalObjects, sceneVars,
                   gpuVars, liveIds, lifecycle, cdc, history>>

----------------------------------------------------------------------------
(* Inputs                                                                   *)

\* cursor moves between two updates, see UpdateMove
Offsets == {0, 1}
\* wheel steps of one scroll event
ScrollSteps == {-1, 1, 20}
\* eye positions: the one of the examples (part_003), straight above the
\* default look-at point, and the default look-at point itself
EyeInputs == {V3(0, Unit, -10 * Unit), V3(0, 10 * Unit, 0), V3(0, 0, 0)}
\* look-at points: the origin and the default eye position
AtInputs == {V3(0, 0, 0), V3(10 * Unit, 0, 0)}
\* near and far planes
PlaneInputs == {<<Unit, 100 * Unit>>}
\* framebuffer sizes
WindowSizes == {<<InitWidth, InitHeight>>, <<400, 400>>}

\* the calls a client makes on the window, the frame loop and the objects;
\* T: model matrices, N: vertex counts, O: cursor moves
ClientNext(T, N, O) ==
    \/ \E outcome \in InitOutcomes : init(outcome)
    \/ \E xoffset \in O, yoffset \in O : update(xoffset, yoffset)
    \/ \E wantCapture \in BOOLEAN, click \in -1 .. Size - 1, use \in BOOLEAN,
          m \in T : render(wantCapture, click, use, m)
    \/ swap
    \/ terminate
    \/ \E m \in T, n \in N : addObject(m, n)
    \/ \E id \in -1 .. Size : removeObject(id)
    \/ \E id \in -1 .. Size, m \in T, n \in N : updateObject(id, m, n)
    \/ \E id \in -1 .. Size, m \in T : updateObjectTransform(id, m)
    \/ \E id \in -1 .. Size, n \in N \cup {0} : updateObjectColors(id, n)

\* the camera setters
SetterNext ==
    \/ \E newEye \in EyeInputs : setCameraEye(newEye)
    \/ \E newAt \in AtInputs : setCameraAt(newAt)
    \/ \E p \in PlaneInputs : setCameraPlanes(p[1], p[2])

Next ==
    \/ ClientNext(Transforms, VertexCounts, Offsets)
    \/ SetterNext
    \/ \E sz \in WindowSizes : internalWindowResizeCallback(sz[1], sz[2])
    \/ \E button \in {GLFW_MOUSE_BUTTON_LEFT, GLFW_MOUSE_BUTTON_MIDDLE},
          action \in {"PRESS", "RELEASE"} : internalMouseButtonCallback(button, action)
    \/ \E y \in ScrollSteps : internalScrollCallback(y)
    \/ \E key \in Keys, action \in {"PRESS", "RELEASE"} : internalKeyCallback(key, action)
    \/ pollDone

Spec == Init /\ [][Next]_vars

\* The registry, the GPU handles and the selection under every client call,
\* with the Delete key as the only input event, one transform value and one
\* vertex count.  The callbacks and setters left out write only the camera,
\* currentMouseButton, mouseDown, keyS, guizmoOp and (mouse release)
\* selectedObjectIndex <- -1; none of them reads or writes internalObjects
\* or the GPU handles.
NextRegistry ==
    \/ ClientNext({"M0"}, {1}, {0})
    \/ internalKeyCallback("DELETE", "PRESS")
    \/ pollDone

SpecRegistry == Init /\ [][NextRegistry]_vars

\* The camera under the setters, the frame loop and the input events that
\* reach _internalCameraMove (keys, scroll, middle-button drag), in a scene
\* without objects whose GUI never captures the pointer.
NextCamera ==
    \/ init("ok")
    \/ SetterNext
    \/ \E xoffset \in Offsets, yoffset \in Offsets : update(xoffset, yoffset)
    \/ render(FALSE, -1, FALSE, "M0")
    \/ swap
    \/ \E sz \in WindowSizes : internalWindowResizeCallback(sz[1], sz[2])
    \/ \E action \in {"PRESS", "RELEASE"} :
          internalMouseButtonCallback(GLFW_MOUSE_BUTTON_MIDDLE, action)
    \/ \E y \in ScrollSteps : internalScrollCallback(y)
    \/ \E key \in {"LEFT", "UP", "PAGE_UP"} : internalKeyCallback(key, "PRESS")
    \/ pollDone

SpecCamera == Init /\ [][NextCamera]_vars

\* Object uploads: creation and the descriptor and colour updates with every
\* vertex count, in an initialised scene.
NextUpload ==
    \/ init("ok")
    \/ \E n \in VertexCounts : addObject("M0", n)
    \/ \E id \in Ids : removeObject(id)
    \/ \E id \in Ids, n \in VertexCounts : updateObject(id, "M0", n)
    \/ \E id \in Ids, n \in VertexCounts \cup {0} : updateObjectColors(id, n)

SpecUpload == Init /\ [][NextUpload]_vars

\* The pointer: button presses and releases, cursor moves and the GUI's
\* capture of the pointer, in a scene without objects.
NextPointer ==
    \/ init("ok")
    \/ \E xoffset \in Offsets, yoffset \in Offsets : update(xoffset, yoffset)
    \/ \E wantCapture \in BOOLEAN : render(wantCapture, -1, FALSE, "M0")
    \/ swap
    \/ \E button \in {GLFW_MOUSE_BUTTON_LEFT, GLFW_MOUSE_BUTTON_MIDDLE},
          action \in {"PRESS", "RELEASE"} : internalMouseButtonCallback(button, action)
    \/ pollDone

SpecPointer == Init /\ [][NextPointer]_vars

\* Selection, gizmo and camera together: a scene of one object that is
\* selected in the scene list and dragged with the gizmo, left-button drags
\* and the mouse wheel.
NextInteraction ==
    \/ init("ok")
    \/ internalObjects = <<>> /\ addObject("M0", 1)
    \/ \E xoffset \in Offsets, yoffset \in Offsets : update(xoffset, yoffset)
    \/ \E wantCapture \in BOOLEAN, click \in -1 .. Size - 1, use \in BOOLEAN,
          m \in Transforms : render(wantCapture, click, use, m)
    \/ swap
    \/ \E action \in {"PRESS", "RELEASE"} :
          internalMouseButtonCallback(GLFW_MOUSE_BUTTON_LEFT, action)
    \/ \E y \in ScrollSteps : internalScrollCallback(y)
    \/ pollDone

SpecInteraction == Init /\ [][NextInteraction]_vars

\* The transform update among creations, deletions and selections in the
\* scene list.
NextTransform ==
    \/ init("ok")
    \/ addObject("M0", 1)
    \/ \E id \in Ids : removeObject(id)
    \/ \E id \in Ids, m \in Transforms : updateObjectTransform(id, m)
    \/ update(0, 0)
    \/ \E click \in -1 .. Size - 1 : render(click # -1, click, FALSE, "M0")
    \/ swap
    \/ pollDone

SpecTransform == Init /\ [][NextTransform]_vars

\* The keyboard: the gizmo shortcuts T, R and S, the Delete key and keys
\* without a binding of their own, with S held or not.
NextKeys ==
    \/ init("ok")
    \/ update(0, 0)
    \/ render(FALSE, -1, FALSE, "M0")
    \/ swap
    \/ \E key \in {"DELETE", "T", "R", "S", "LEFT", "PAGE_DOWN", "OTHER"} :
          internalKeyCallback(key, "PRESS")
    \/ internalKeyCallback("S", "RELEASE")
    \/ pollDone

SpecKeys == Init /\ [][NextKeys]_vars

TypeOK ==
    /\ status \in {"running", "aborted", "crashed"}
    /\ selectedObjectIndex \in -1 .. MaxCreates
    /\ Size <= MaxCreates

----------------------------------------------------------------------------
(* Properties                                                              *)

Running == status = "running"
Tombstones == {i \in Ids : Obj(i).isDeleted}
LiveNow == {i \in Ids : ~Obj(i).isDeleted}
MinOf(S) == CHOOSE x \in S : \A y \in S : x <= y
Range(q) == {q[k] : k \in 1 .. Len(q)}
Ascending(q) == \A k \in 1 .. Len(q) - 1 : q[k] < q[k + 1]

\* update, render, swap and the object calls
GuardedCalls == {"update", "render", "swap", "addObject", "removeObject",
                 "updateObject", "updateObjectTransform", "updateObjectColors"}

\* C1: in every reachable state the selection is none or the index of a
\* record that is in range and not tombstoned.
C1_SelectionIsLive ==
    \/ selectedObjectIndex = -1
    \/ InRange(selectedObjectIndex) /\ ~Obj(selectedObjectIndex).isDeleted

\* C2: when removeObject(id) is called with id the current selection, the
\* selection is none when the call returns.
C2_RemoveSelectedClearsSelection ==
    [][(lastOp'.op = "removeObject" /\ status' = "running"
        /\ lastOp'.id = selectedObjectIndex)
       => selectedObjectIndex' = -1]_vars

\* C3: addObject returns the lowest tombstoned index and leaves the length
\* unchanged when a tombstone exists, and otherwise returns the old length
\* and grows the registry by one; create -> delete(that id) -> create
\* returns the same id the second time.
C3_CreateReusesLowestTombstone ==
    /\ [][(lastOp'.op = "addObject" /\ status' = "running")
          => IF Tombstones # {}
             THEN /\ lastOp'.ret = MinOf(Tombstones)
                  /\ Len(internalObjects') = Size
             ELSE /\ lastOp'.ret = Size
                  /\ Len(internalObjects') = Size + 1]_vars
    /\ [](cdc.stage = 3 => cdc.ret = cdc.id)

\* C3 witness: a create reused the lower of two tombstoned slots.
C3_Witness ==
    /\ Running /\ lastOp.op = "addObject"
    /\ \E j \in Tombstones : j > lastOp.ret
    /\ Obj(lastOp.ret).uid = created /\ created > lastOp.ret + 1

\* C4: the loops of render and of the scene list visit exactly the ids
\* created and not deleted since, once each, in ascending order, and no
\* tombstoned slot.
C4_LiveIterationIsCreatedMinusDeleted ==
    (lastOp.op = "render" /\ Running) =>
        /\ Ascending(frameOut.drawn) /\ Range(frameOut.drawn) = liveIds
        /\ Ascending(frameOut.listed) /\ Range(frameOut.listed) = liveIds
        /\ \A i \in Range(frameOut.drawn) \cup Range(frameOut.listed) :
              InRange(i) /\ ~Obj(i).isDeleted

\* C4 witness: a render drew a live record that sits behind a tombstone.
C4_Witness ==
    /\ lastOp.op = "render" /\ Running
    /\ \E i \in Tombstones : \E j \in Range(frameOut.drawn) : i < j
    /\ Len(frameOut.listed) >= 1

\* the step deletes record i
DeletesRecord(i) ==
    \/ lastOp'.op = "removeObject" /\ lastOp'.id = i
    \/ lastOp'.op = "keyDELETE" /\ lastOp'.id = i
    \/ lastOp'.op = "terminate"

\* C5: addObject never returns the id of a live record, and a live object
\* stays live under the same id in every step that does not delete it.
C5_IdentityStable ==
    [][status' = "running" =>
         /\ lastOp'.op = "addObject" => lastOp'.ret \notin LiveNow
         /\ \A i \in LiveNow :
               ~DeletesRecord(i) =>
                   /\ i < Len(internalObjects')
                   /\ internalObjects'[i + 1].uid = Obj(i).uid
                   /\ ~internalObjects'[i + 1].isDeleted]_vars

\* C5 witness: a create reused slot ret while an older object is live
\* under a higher id.
C5_Witness ==
    /\ Running /\ lastOp.op = "addObject"
    /\ \E i \in LiveNow : i > lastOp.ret /\ Obj(i).uid < Obj(lastOp.ret).uid

\* C6: a handle set is released once, at the delete of its record or at
\* terminate, never twice and never before; after terminate the registry
\* is empty and every handle allocated so far has been released.
C6_HandlesReleasedExactlyOnce ==
    /\ \A h \in DOMAIN released :
          released[h] = IF h \in allocated
                           /\ ~\E i \in LiveNow : Obj(i).buffers = h
                        THEN 1 ELSE 0
    /\ (lastOp.op = "terminate" /\ Running) =>
          /\ Size = 0
          /\ \A h \in allocated : released[h] = 1

\* C6 witness: terminate ran over a tombstoned slot and a live record, in a
\* run where a slot had been reused.
C6_Witness ==
    /\ lastOp.op = "terminate" /\ Running
    /\ lastOp.id >= 1 /\ lastOp.ret >= 1
    /\ Cardinality(allocated) >= 3

\* C7: removeObject(id) on an in-range id returns true exactly when the
\* record is live; a false return changes neither the registry nor the
\* GPU handles; a tombstoned slot stays tombstoned until addObject reuses it.
C7_DeleteIdempotent ==
    [][status' = "running" =>
         /\ lastOp'.op = "removeObject" =>
               /\ lastOp'.ok = (lastOp'.id \in LiveNow)
               /\ lastOp'.ok => internalObjects'[lastOp'.id + 1].isDeleted
               /\ ~lastOp'.ok => UNCHANGED <<internalObjects, gpuVars>>
         /\ \A i \in Tombstones :
               (i < Len(internalObjects') /\ ~internalObjects'[i + 1].isDeleted)
                   => (lastOp'.op = "addObject" /\ lastOp'.ret = i)]_vars

\* C7 witness: removeObject returned false on a tombstoned record.
C7_Witness ==
    /\ lastOp.op = "removeObject" /\ Running
    /\ ~lastOp.ok /\ lastOp.id \in Tombstones

\* C8 (as stated): removeObject with an id outside [0, size) returns false
\* and takes no fatal path.
C8_OutOfRangeDeleteReturnsFalse ==
    (lastOp.op = "removeObject" /\ initWasCalled /\ ~InRange(lastOp.id))
        => (Running /\ ~lastOp.ok)

\* C8 (amended): removeObject with an id outside [0, size) fails its
\* assertion; registry, GPU handles and selection are as before the call.
C8_OutOfRangeDeleteAsserts ==
    [][(lastOp'.op = "removeObject" /\ ~InRange(lastOp'.id))
       => /\ status' = "aborted"
          /\ UNCHANGED <<internalObjects, gpuVars, selectedObjectIndex>>]_vars

\* C8 witness: an initialised scene with a record, and removeObject called
\* with an id outside the registry.
C8_Witness ==
    /\ lastOp.op = "removeObject" /\ initWasCalled /\ Size >= 1
    /\ ~InRange(lastOp.id) /\ status = "aborted"

\* C9: a frame or object call made while init has not run, or after the
\* last init returned early on a failure, takes the fatal assertion path.
C9_CallsWithoutInitAbort ==
    (lastOp.op \in GuardedCalls /\ lifecycle \in {"fresh", "initFailed"})
        => status = "aborted"

\* C10: a frame or object call made after terminate takes the fatal
\* assertion path.
C10_CallsAfterTerminateAbort ==
    (lastOp.op \in GuardedCalls /\ lifecycle = "terminated")
        => status = "aborted"

----------------------------------------------------------------------------------------------------------------------------------------
(* Camera properties                                                       *)

Finite(v) == ~IsNaNVec(v)
Distance(e, a) == internalLength(VSub(a, e))
\* the arguments of the last step's _internalCameraMove call, <<>> if it
\* made none, and the camera the call started from
Moved == frameOut.moved
Called == Moved # <<>>
eyeBefore == frameOut.before[1]
atBefore == frameOut.before[2]
upBefore == frameOut.before[3]
DollyStep == Called /\ Moved[1] = Angle0 /\ Moved[2] = Angle0 /\ Moved[3] # 0
OrbitStep == Called /\ (Moved[1] # Angle0 \/ Moved[2] # Angle0)
                    /\ Moved[3] = 0 /\ Moved[4] = 0 /\ Moved[5] = 0
PanStep == Called /\ Moved[1] = Angle0 /\ Moved[2] = Angle0 /\ Moved[3] = 0
                  /\ (Moved[4] # 0 \/ Moved[5] # 0)

\* the baked matrices are those of the current camera and viewport
BakedCurrent ==
    /\ bakedLookAtMatrix = lookAtMatrix(eye, at)
    /\ bakedPerspectiveMatrix =
           perspectiveMatrix(zNear, zFar, width_internal, height_internal)

\* C11: whenever the baked view or projection matrix is not the one of the
\* current eye, at, zNear, zFar and viewport size, the dirty flag is set;
\* so the matrices a render leaves are those of the current camera.
C11_StaleMatricesAreFlagged ==
    /\ ~BakedCurrent => cameraWasChangedInLastframe
    /\ (lastOp.op = "render" /\ Running) => BakedCurrent

\* C12: a dolly step (scroll, PageUp, PageDown) from a camera with
\* eye # at leaves the eye at a positive distance from at, on the side of
\* at it was on.
C12_DollyKeepsDistance ==
    (DollyStep /\ Finite(eyeBefore) /\ Finite(atBefore) /\ eyeBefore # atBefore)
       => /\ Finite(eye)
          /\ eye # at
          /\ internalDot(VSub(at, eye), VSub(atBefore, eyeBefore)) > 0

\* the camera of C13
DefaultCamera == eyeBefore = V3(10 * Unit, 0, 0) /\ atBefore = V3(0, 0, 0)

\* C13 (as stated): with eye = (10,0,0) and at = (0,0,0), a dolly with a
\* negative input strictly decreases distance(eye, at).
C13_NegativeDollyMovesCloser ==
    (DollyStep /\ DefaultCamera /\ Moved[3] < 0)
       => Distance(eye, at) < Distance(eyeBefore, atBefore)

\* C13 (amended): with eye = (10,0,0) and at = (0,0,0), a dolly with a
\* negative input (one wheel step back) strictly increases
\* distance(eye, at); one with a positive input of at most one wheel step
\* (one wheel step forward, PageUp) strictly decreases it and leaves it
\* positive.
C13_DollySign ==
    (DollyStep /\ DefaultCamera)
       => /\ Moved[3] < 0 => Distance(eye, at) > Distance(eyeBefore, atBefore)
          /\ (Moved[3] > 0 /\ Moved[3] <= 2 * Unit)
                => /\ Distance(eye, at) < Distance(eyeBefore, atBefore)
                   /\ Distance(eye, at) > 0

\* C13 witness: one wheel step back from the default camera has moved the
\* eye from 10 to 10.5.
C13_Witness ==
    /\ lastOp.op = "scroll" /\ DefaultCamera /\ Moved[3] = -2 * Unit
    /\ eye = V3(10 * Unit + Unit \div 2, 0, 0) /\ at = V3(0, 0, 0)

\* C14: an orbit or a dolly when eye = at changes none of eye, at and up.
C14_DegenerateCameraRejected ==
    ((OrbitStep \/ DollyStep) /\ Finite(eyeBefore) /\ eyeBefore = atBefore)
       => (eye = eyeBefore /\ at = atBefore /\ up = upBefore)

\* C15: a pan leaves at - eye and up as they were.
C15_PanKeepsViewVector ==
    PanStep => (VSub(at, eye) = VSub(atBefore, eyeBefore) /\ up = upBefore)

\* |up| = 1 and up . (at - eye) = 0, within 0.5% of a unit
UpIsUnit ==
    /\ Finite(up)
    /\ Abs(internalLength(up) - Unit) * 200 <= Unit
UpIsOrthogonal ==
    LET d == internalDot(up, internalNormalize(VSub(at, eye)))
    IN ~IsNaN(d) /\ Abs(d) * 200 <= Unit

\* C16: after an orbit step from a finite camera with eye # at, up has
\* length 1 and is orthogonal to at - eye.
C16_OrbitKeepsUpOrthonormal ==
    (OrbitStep /\ Finite(eyeBefore) /\ Finite(atBefore) /\ Finite(upBefore)
        /\ eyeBefore # atBefore)
       => (UpIsUnit /\ UpIsOrthogonal)

----------------------------------------------------------------------------
(* Update, Delete key and pointer properties                               *)

UpdateCalls == {"updateObject", "updateObjectTransform", "updateObjectColors"}

\* C17: updateObject in each of its three forms, called with an id below 0
\* or at or beyond the registry length, fails its assertion and changes no
\* record.
C17_UpdateOutOfRangeAsserts ==
    [][(lastOp'.op \in UpdateCalls /\ ~InRange(lastOp'.id))
       => (status' = "aborted" /\ UNCHANGED internalObjects)]_vars

\* C17 witness: in an initialised scene with a record, the transform form
\* was called with id = length and the process aborted.
C17_Witness ==
    /\ lastOp.op = "updateObjectTransform" /\ lifecycle = "initialised"
    /\ Size >= 1 /\ lastOp.id = Size /\ status = "aborted"

\* the glBufferSubData calls of the last step that GL accepted
AcceptedWrites == {k \in 1 .. Len(frameOut.written) : frameOut.written[k][4]}

\* C18: updateObject(id, descriptor) and updateObject(id, colours) on an
\* in-range id with a count other than the record's vertex count end in a
\* failed assertion and write nothing to the record's GPU buffer.
C18_SizeMismatchAsserts ==
    (lastOp.op \in {"updateObject", "updateObjectColors"} /\ InRange(lastOp.id)
        /\ lastOp.ret # Obj(lastOp.id).vertexCount)
       => (status = "aborted" /\ AcceptedWrites = {})

\* C19: a Delete key press with a selection tombstones the selected record
\* and clears the selection in the same step; without a selection it
\* changes neither the registry nor the selection.
C19_DeleteKeyClearsSelection ==
    [][lastOp'.op = "keyDELETE"
       => IF selectedObjectIndex # -1
          THEN /\ selectedObjectIndex' = -1
               /\ InRange(selectedObjectIndex)
               /\ internalObjects'[selectedObjectIndex + 1].isDeleted
          ELSE UNCHANGED <<internalObjects, selectedObjectIndex>>]_vars

\* C20: a mouse button press while the pointer is over the GUI leaves
\* currentMouseButton as it was.
C20_PressOverGuiSwallowed ==
    [][(lastOp'.op = "mousePRESS" /\ isMouseOverGui)
       => UNCHANGED currentMouseButton]_vars

----------------------------------------------------------------------------
(* Drag, frame, scroll and transform properties                            *)

\* C21: a button release outside the GUI with the gizmo inactive that ends
\* a drag which started on the scene and moved the camera leaves the
\* selection as it was.
C21_DragReleaseKeepsSelection ==
    [][(lastOp'.op = "mouseRELEASE" /\ ~isMouseOverGui /\ ~gizmoUsing
        /\ history.drag.target = "camera" /\ history.drag.moved)
       => UNCHANGED selectedObjectIndex]_vars

\* C22: in every update made while a button is held, the cursor's moves go
\* to the target they had at the press (camera, gizmo or nothing); an
\* update made while the gizmo is dragged does not call the camera move.
C22_DragTargetFixed ==
    (lastOp.op = "update" /\ Running /\ currentMouseButton # -1)
       => /\ PointerTarget = history.drag.target
          /\ gizmoUsing => ~Called

\* registry, camera and interaction state
MutableState == <<internalObjects, selectedObjectIndex, currentMouseButton,
                  guizmoOp, eye, at, up, zNear, zFar, width_internal,
                  height_internal, cameraWasChangedInLastframe>>

\* C23: no step taken inside swap() (the callbacks glfwPollEvents runs for
\* key, scroll, mouse-button and resize events) changes registry, camera or
\* interaction state.
C23_NoMutationDuringSwap ==
    [][frame = "poll" => UNCHANGED MutableState]_vars

\* C24: every scroll event calls the camera move with a non-zero z and
\* nothing else, and leaves the eye where the dolly puts it, at and up as
\* they were and the dirty flag set, whatever the held button, the gizmo
\* and the GUI.
C24_ScrollAlwaysDollies ==
    lastOp.op = "scroll"
       => /\ DollyStep
          /\ eye = Dolly([eye |-> eyeBefore, at |-> atBefore, up |-> upBefore,
                          changed |-> FALSE], Moved[3]).eye
          /\ at = atBefore /\ up = upBefore
          /\ cameraWasChangedInLastframe

\* C24 witness: a scroll moved the eye while the left button was held on a
\* gizmo handle and the GUI had the pointer.
C24_Witness ==
    /\ lastOp.op = "scroll" /\ Running
    /\ gizmoUsing /\ isMouseOverGui /\ currentMouseButton = GLFW_MOUSE_BUTTON_LEFT
    /\ selectedObjectIndex # -1
    /\ eye # eyeBefore

\* C25: updateObject(id, position, rotation, scale) changes nothing but the
\* model matrix of record id: its handles, vertex count and tombstone flag,
\* every other record, the length, the selection, the camera and the GPU
\* handles are as before.
C25_TransformUpdateOnlyModelMatrix ==
    [][(lastOp'.op = "updateObjectTransform" /\ status' = "running")
       => /\ Len(internalObjects') = Size
          /\ \A i \in Ids :
                internalObjects'[i + 1] =
                    IF i = lastOp'.id
                    THEN [Obj(i) EXCEPT !.modelMatrix = internalObjects'[i + 1].modelMatrix]
                    ELSE Obj(i)
          /\ UNCHANGED <<selectedObjectIndex, cameraVars,
                         cameraWasChangedInLastframe, gpuVars>>]_vars

\* C25 witness: the transform of the selected record was changed while
\* another record, still with its first transform, and a tombstone exist.
C25_Witness ==
    /\ lastOp.op = "updateObjectTransform" /\ Running
    /\ selectedObjectIndex = lastOp.id
    /\ Obj(lastOp.id).modelMatrix = "M1"
    /\ \E i \in LiveNow : i # lastOp.id /\ Obj(i).modelMatrix = "M0"
    /\ Tombstones # {}

\* C26: while the selection stays on the same index, the object stored at
\* that index stays the same object.
C26_SelectionKeepsItsObject ==
    [][(selectedObjectIndex # -1 /\ selectedObjectIndex' = selectedObjectIndex
        /\ InRange(selectedObjectIndex)
        /\ selectedObjectIndex < Len(internalObjects'))
       => internalObjects'[selectedObjectIndex + 1].uid
              = Obj(selectedObjectIndex).uid]_vars

\* C27: the buffers a step writes to and the records a render draws have
\* handles that were not released.
C27_NoUseAfterRelease ==
    Running =>
       /\ \A k \in 1 .. Len(frameOut.written) :
              released[frameOut.written[k][1]] = 0
       /\ \A i \in Range(frameOut.drawn) : released[Obj(i).buffers] = 0

\* C28: between init and terminate the registry length is the largest
\* number of objects that were live at the same time so far.
C28_LengthIsPeakLive ==
    lifecycle = "initialised" => Size = history.peakLive

\* C28 witness: a third create, into the slot of a deleted object, left the
\* length at the peak of two live objects.
C28_Witness ==
    /\ lifecycle = "initialised" /\ Running /\ lastOp.op = "addObject"
    /\ created = 3 /\ Size = 2 /\ history.peakLive = 2
    /\ Cardinality(LiveNow) = 2

\* C29: currentMouseButton is none exactly when no button is held, and
\* otherwise a button that is held.
C29_ActiveButtonIsHeld ==
    /\ currentMouseButton = -1 <=> mouseDown = {}
    /\ currentMouseButton # -1 => currentMouseButton \in mouseDown

\* press events of keys other than T, R and S
OtherKeyPresses == {"keyDELETE", "keyLEFT", "keyUP", "keyPAGE_UP", "keyPAGE_DOWN",
                    "keyOTHER"}

\* C30: a press event of a key other than T, R and S leaves guizmoOp
\* unchanged, whatever keys are held.
C30_OtherKeysKeepGuizmoOp ==
    [][lastOp'.op \in OtherKeyPresses => UNCHANGED guizmoOp]_vars
====
